---- MODULE Spec2Model ----
(***************************************************************************)
(* VoiceAgent-Websocket: the upstream connection pool (app/client/pool.py) *)
(* with its connections (app/client/client.py), and the per-session        *)
(* response handler (app/handlers/openai_handler.py).                      *)
(*                                                                         *)
(* The pool runs on one asyncio event loop: a coroutine runs without       *)
(* interruption between two awaits that suspend it.  One action of the     *)
(* model is one such run.  The awaits that suspend are client.connect()    *)
(* (network I/O) and the wait for a held initialization_lock.              *)
(***************************************************************************)
EXTENDS Integers, Sequences, FiniteSets, TLC

\* Bounds of the model
NumTasks == 2      \* coroutines calling the pool (sessions)
MaxClients == 3    \* OpenAIWebSocketClient objects ever constructed
MaxIdle == 2       \* longest list available_clients explored
MaxCloses == 1     \* transports the peer closes
MaxSkips == 1      \* calls of initialize() after the pool is initialized

MaxTime == 2005    \* the wall clock stops here
MaxChunks == 3     \* audio chunks counted in one turn
MaxSchedules == 2  \* calls of schedule_health_check

\* the instants of the wall clock explored, in ms
StartTime == 1000
Instants == {StartTime, 1150, 1399, 1400, 2000, MaxTime}
NoTime == -1       \* None, for a timestamp
NoCount == 0       \* no attribute _audio_chunk_count
Items == {1, 2}    \* item ids of the assistant's conversation items

Tasks == 1..NumTasks
ClientIds == 1..MaxClients
None == 0

VARIABLES
    \* OpenAIClientPool
    min_connections,     \* set by the constructor
    max_connections,
    available_clients,   \* list of clients
    in_use_clients,      \* set of clients
    initialized,
    lock_holder,         \* initialization_lock: the task inside "async with", or None
    lock_waiters,        \* initialization_lock: the tasks waiting, first come first served
    \* OpenAIWebSocketClient, per object
    websocket,           \* "none" (None), "open", "closed" (object kept, transport closed)
    flag_connected,      \* self._connected
    message_callback,    \* self._message_callback is set (TRUE) or None (FALSE)
    next_client,         \* the next object OpenAIWebSocketClient() constructs
    \* the coroutines calling the pool
    pc,                  \* where each task is suspended; "get_init_..." is initialize
                         \* called by get_client (line 53)
    client,              \* local variable client of initialize / get_client
    loop_i,              \* initialize: iterations of the for loop done
    successful_connections,
    held,                \* the client get_client returned to the task, until it releases it
    \* health_check (one periodic task)
    hc_pc, hc_index, healthy_clients, hc_client, needed_clients,
    \* history
    init_runs,           \* times the body of initialize's loop was entered
    init_connects,       \* connect() calls made by initialize
    init_skipped,        \* calls of initialize that returned at line 21
    closes,              \* transports the peer has closed
    released,            \* how the last release_client ended: "moved", "ignored"
    hc_failed,           \* health_check: the clients whose reconnect failed in this run
    hc_clean,            \* health_check: no connect of this run has failed
    \* close_all (one call, at shutdown)
    ca_pc,               \* "idle", "closing" (suspended in a close()), "done"
    ca_queue,            \* the clients of line 111 still to close, the first being closed
    ca_targets,          \* history: the clients line 111 listed
    ca_failed,           \* history: the clients whose transport-level close raised
    \* one user of the client objects' own operations (client.py)
    api_call,            \* history: the last call made and how it ended
    ever_connected,      \* history, per object: a connect() has returned normally
    closed_by_close,     \* history, per object: close() ran since the last such connect
    session_sent,        \* history, per object: the session configuration was sent on
                         \* the transport the object holds
    \* the periodic health check (pool_instance.py)
    health_check_task,   \* the global health_check_task: None or a task
    pt_pc,               \* per task of periodic_health_check: "none" (not created),
                         \* "sleeping" (line 24), "checking" (line 26), "done"
    pt_cancel,           \* per task: cancel() was called on it and the CancelledError
                         \* has not been raised in it yet
    pt_failed,           \* history, per task: its last health_check() raised
    pt_checks,           \* history, per task: the calls of health_check() it made,
                         \* counted modulo 2
    \* one session: StreamState
    latest_timestamp, last_assistant_item, response_start_time, is_user_speaking,
    is_assistant_speaking,
    \* one session: OpenAIMessageHandler
    audio_duration_ms, audio_start_time,
    audio_chunk_count,   \* _audio_chunk_count; NoCount: the attribute is absent
    \* one session: its surroundings
    now,                 \* wall clock, ms: time.time() * 1000
    client_state,        \* websocket.client_state.name of the client-facing socket
    session_websocket,   \* openai_client.websocket of the session: "open", "closed"
    session_connected,   \* openai_client._connected of the session
    last_event,          \* the type of the upstream event handled last
    upstream_sent,       \* messages handed to openai_client.send while handling it
    client_sent,         \* messages handed to websocket.send_json while handling it
    tool_calls,          \* how each execute_function called while handling it ended
    audio_since_truncate, \* history: an audio chunk reached the client after the
                         \* last truncate command that reached the upstream service
    \* one session: websocket_endpoint and its two directions (router.py)
    ep_pc,               \* websocket_endpoint: "ready", "gather", "finished"
    ra_pc,               \* receive_audio: "not_started", "waiting", "done", "raised"
    pm_pc,               \* process_openai_messages: "not_started", "check", "receive",
                         \* "handling", "done"
    pm_i,                \* iterations done of the for loop of line 129
    recv_payload,        \* the payload of the frame receive_message read last
    recv_result          \* how that receive_message ended

poolVars == <<available_clients, in_use_clients, initialized, lock_holder, lock_waiters>>
clientVars == <<websocket, flag_connected, next_client, message_callback>>
taskVars == <<pc, client, loop_i, successful_connections, held>>
hcVars == <<hc_pc, hc_index, healthy_clients, hc_client, needed_clients>>
histVars == <<init_runs, init_connects, init_skipped, closes>>
ghostVars == <<released, hc_failed, hc_clean>>
shutdownVars == <<ca_pc, ca_queue, ca_targets, ca_failed>>
apiVars == <<api_call, ever_connected, closed_by_close, session_sent>>
periodicVars == <<health_check_task, pt_pc, pt_cancel, pt_failed, pt_checks>>
cfgVars == <<min_connections, max_connections>>
stateVars == <<latest_timestamp, last_assistant_item, response_start_time,
               is_user_speaking, is_assistant_speaking>>
trackVars == <<audio_duration_ms, audio_start_time, audio_chunk_count>>
envVars == <<now, client_state, session_websocket, session_connected>>
logVars == <<last_event, upstream_sent, client_sent, tool_calls, audio_since_truncate>>
sessionVars == <<stateVars, trackVars, envVars, logVars>>
routerVars == <<ep_pc, ra_pc, pm_pc, pm_i, recv_payload, recv_result>>
allPoolVars == <<cfgVars, poolVars, clientVars, taskVars, hcVars, histVars, ghostVars,
                 shutdownVars, apiVars, periodicVars>>
vars == <<allPoolVars, sessionVars, routerVars>>

----------------------------------------------------------------------------
\* OpenAIWebSocketClient

\* property connected, on given values of the two fields
connected(ws, fl, c) == fl[c] /\ ws[c] # "none" /\ ws[c] # "closed"

IsConnected(c) == connected(websocket, flag_connected, c)

\* The ways one call of connect() ends:
\*   "ok"           transport opened, session initialized if it was not, returns
\*   "open_fails"   websockets.connect raises
\*   "init_fails"   transport opened, initialize_session's send raises; close() runs
\*   "closed_early" returns normally, the peer has closed the transport by then
ConnectOutcomes == {"ok", "open_fails", "init_fails", "closed_early"}

\* initialize_session runs only when _connected is false
ConnectPossible(c, o) == o = "init_fails" => ~flag_connected[c]

connect_raises(o) == o \in {"open_fails", "init_fails"}

connect_websocket(c, o) ==
    CASE o = "ok" -> [websocket EXCEPT ![c] = "open"]
      [] o = "open_fails" -> websocket
      [] o = "init_fails" -> [websocket EXCEPT ![c] = "none"]
      [] o = "closed_early" -> [websocket EXCEPT ![c] = "closed"]

\* the flag left alone when websockets.connect raises
connect_flag_kept(c, o) ==
    CASE o = "ok" -> [flag_connected EXCEPT ![c] = TRUE]
      [] o = "open_fails" -> flag_connected
      [] o = "init_fails" -> [flag_connected EXCEPT ![c] = FALSE]
      [] o = "closed_early" -> [flag_connected EXCEPT ![c] = TRUE]

connect_flag(c, o) ==
    CASE o = "ok" -> [flag_connected EXCEPT ![c] = TRUE]
      [] o = "open_fails" -> [flag_connected EXCEPT ![c] = FALSE]
      [] o = "init_fails" -> [flag_connected EXCEPT ![c] = FALSE]
      [] o = "closed_early" -> [flag_connected EXCEPT ![c] = TRUE]

\* a client object something still refers to
Range(q) == {q[i] : i \in 1..Len(q)}

referenced(c) ==
    \/ c \in Range(available_clients) \cup in_use_clients \cup Range(healthy_clients)
    \/ c = hc_client
    \/ \E t \in Tasks : c = client[t] \/ c = held[t]

\* The peer closes the transport of a client: websocket.closed becomes true
TransportCloses(c) ==
    /\ referenced(c)
    /\ websocket[c] = "open"
    /\ closes < MaxCloses
    /\ closes' = closes + 1
    /\ websocket' = [websocket EXCEPT ![c] = "closed"]
    /\ UNCHANGED <<flag_connected, next_client, poolVars, taskVars, hcVars, init_runs,
                   init_connects, init_skipped>>
    /\ UNCHANGED <<cfgVars, sessionVars, routerVars, shutdownVars, apiVars,
                   periodicVars>>
    /\ UNCHANGED <<message_callback, ghostVars>>

----------------------------------------------------------------------------
\* the tasks schedule_health_check can create
PeriodicTasks == 1..MaxSchedules

\* before any call of a client's operations
NoCall == [op |-> "none", client |-> None, outcome |-> "none", result |-> "none",
           was_connected |-> FALSE]

\* The pools explored: OpenAIClientPool(min_connections, max_connections)
PoolConfigs == {<<1, 1>>, <<2, 2>>}

Init ==
    /\ \E cfg \in PoolConfigs : min_connections = cfg[1] /\ max_connections = cfg[2]
    /\ available_clients = <<>>
    /\ in_use_clients = {}
    /\ initialized = FALSE
    /\ lock_holder = None
    /\ lock_waiters = <<>>
    /\ websocket = [c \in ClientIds |-> "none"]
    /\ flag_connected = [c \in ClientIds |-> FALSE]
    /\ next_client = 1
    /\ pc = [t \in Tasks |-> "idle"]
    /\ client = [t \in Tasks |-> None]
    /\ loop_i = [t \in Tasks |-> 0]
    /\ successful_connections = [t \in Tasks |-> 0]
    /\ held = [t \in Tasks |-> None]
    /\ hc_pc = "idle"
    /\ hc_index = 0
    /\ healthy_clients = <<>>
    /\ hc_client = None
    /\ needed_clients = 0
    /\ init_runs = 0
    /\ init_connects = 0
    /\ init_skipped = 0
    /\ closes = 0
    /\ message_callback = [c \in ClientIds |-> FALSE]
    /\ released = "none"
    /\ hc_failed = {}
    /\ hc_clean = TRUE
    /\ ca_pc = "idle"
    /\ ca_queue = <<>>
    /\ ca_targets = {}
    /\ ca_failed = {}
    /\ api_call = NoCall
    /\ ever_connected = [c \in ClientIds |-> FALSE]
    /\ closed_by_close = [c \in ClientIds |-> FALSE]
    /\ session_sent = [c \in ClientIds |-> FALSE]
    \* pool_instance.py line 16
    /\ health_check_task = None
    /\ pt_pc = [t \in PeriodicTasks |-> "none"]
    /\ pt_cancel = [t \in PeriodicTasks |-> FALSE]
    /\ pt_failed = [t \in PeriodicTasks |-> FALSE]
    /\ pt_checks = [t \in PeriodicTasks |-> 0]
    \* StreamState(): stream_state.py lines 23-28
    /\ latest_timestamp = 0
    /\ last_assistant_item = None
    /\ response_start_time = NoTime
    /\ is_user_speaking = FALSE
    /\ is_assistant_speaking = FALSE
    \* OpenAIMessageHandler.__init__: openai_handler.py lines 31-37
    /\ audio_duration_ms = 0
    /\ audio_start_time = NoTime
    /\ audio_chunk_count = NoCount
    \* router.py lines 28-39: the client socket is accepted, openai_client connected
    /\ now = StartTime
    /\ client_state = "CONNECTED"
    /\ session_websocket = "open"
    /\ session_connected = TRUE
    /\ last_event = "none"
    /\ upstream_sent = <<>>
    /\ client_sent = <<>>
    /\ tool_calls = <<>>
    /\ audio_since_truncate = FALSE
    \* router.py line 39: the endpoint is about to confirm the connection
    /\ ep_pc = "ready"
    /\ ra_pc = "not_started"
    /\ pm_pc = "not_started"
    /\ pm_i = 0
    /\ recv_payload = "none"
    /\ recv_result = "none"

----------------------------------------------------------------------------
\* OpenAIClientPool.get_client

\* get_client returns value c (None: no client) to task t; lines 96-99
get_client_returns(t, c, av) ==
    /\ available_clients' = av
    /\ in_use_clients' = IF c # None THEN in_use_clients \cup {c} ELSE in_use_clients
    /\ pc' = [pc EXCEPT ![t] = "idle"]
    /\ client' = [client EXCEPT ![t] = None]
    /\ held' = [held EXCEPT ![t] = c]
    /\ next_client' = next_client

\* get_client suspends in connect() of client c
get_client_awaits(t, where, c, av, nxt) ==
    /\ available_clients' = av
    /\ in_use_clients' = in_use_clients
    /\ pc' = [pc EXCEPT ![t] = where]
    /\ client' = [client EXCEPT ![t] = c]
    /\ held' = held
    /\ next_client' = nxt

\* line 81: a new client may be created
under_capacity == Cardinality(in_use_clients) < max_connections

\* lines 80-99, with the local variable client = cur and the pool's list empty
get_client_tail(t, cur) ==
    IF cur = None /\ under_capacity
    THEN /\ next_client <= MaxClients
         /\ get_client_awaits(t, "get_new", next_client, <<>>, next_client + 1)
    ELSE get_client_returns(t, cur, <<>>)

\* From the head of the while loop (line 58) to the next await or the return, with
\* the local variable client = cur, the pool's list av and the clients' fields ws, fl
get_client_loop(t, cur, av, ws, fl) ==
    IF av # <<>>
    THEN LET c == av[Len(av)]
             rest == SubSeq(av, 1, Len(av) - 1)
         IN  IF connected(ws, fl, c)
             THEN get_client_returns(t, c, rest)
             ELSE get_client_awaits(t, "get_reconnect", c, rest, next_client)
    ELSE get_client_tail(t, cur)

----------------------------------------------------------------------------
\* OpenAIClientPool.initialize

at_wait(o) == IF o = "acq" THEN "get_init_wait" ELSE "init_wait"
at_connect(o) == IF o = "acq" THEN "get_init_connect" ELSE "init_connect"

\* the check of line 20 left out
initialize_skips_never(flag) == FALSE

\* line 20: the check made inside the lock
initialize_skips(flag) == flag

\* initialize returned to its caller: get_client goes on, a direct call is over
after_initialize(t, o, av, ws, fl) ==
    IF o = "acq"
    THEN get_client_loop(t, None, av, ws, fl)
    ELSE /\ available_clients' = av
         /\ in_use_clients' = in_use_clients
         /\ pc' = [pc EXCEPT ![t] = "idle"]
         /\ client' = [client EXCEPT ![t] = None]
         /\ held' = held
         /\ next_client' = next_client

\* lines 19-30: task t has the lock; up to the first connect() or the early return
initialize_locked(t, o) ==
    IF initialize_skips(initialized)
    THEN /\ init_skipped < MaxSkips
         /\ lock_holder' = None
         /\ init_skipped' = init_skipped + 1
         /\ UNCHANGED <<initialized, loop_i, successful_connections, init_runs,
                        init_connects, closes>>
         /\ after_initialize(t, o, available_clients, websocket, flag_connected)
    ELSE /\ next_client <= MaxClients
         /\ lock_holder' = t
         /\ initialized' = initialized
         /\ loop_i' = [loop_i EXCEPT ![t] = 0]
         /\ successful_connections' = [successful_connections EXCEPT ![t] = 0]
         /\ init_runs' = init_runs + 1
         /\ init_connects' = init_connects + 1
         /\ UNCHANGED <<init_skipped, closes>>
         /\ get_client_awaits(t, at_connect(o), next_client, available_clients,
                              next_client + 1)

lock_free == lock_holder = None /\ lock_waiters = <<>>

\* the caller of the initialize() task t is in: get_client ("acq") or the task ("init")
caller(t) == IF pc[t] \in {"get_init_wait", "get_init_connect"} THEN "acq" ELSE "init"

\* "async with self.initialization_lock" by task t calling o
enter_initialize(t, o) ==
    IF lock_free
    THEN /\ lock_waiters' = lock_waiters
         /\ initialize_locked(t, o)
    ELSE /\ lock_waiters' = Append(lock_waiters, t)
         /\ pc' = [pc EXCEPT ![t] = at_wait(o)]
         /\ UNCHANGED <<available_clients, in_use_clients, initialized, lock_holder,
                        client, loop_i, successful_connections, held, next_client,
                        histVars>>

\* a task calls pool.initialize()
initialize_call(t) ==
    /\ pc[t] = "idle"
    /\ enter_initialize(t, "init")
    /\ UNCHANGED <<websocket, flag_connected, hcVars>>
    /\ UNCHANGED <<cfgVars, sessionVars, routerVars, shutdownVars, apiVars,
                   periodicVars>>
    /\ UNCHANGED <<message_callback, ghostVars>>

\* a task calls pool.get_client(); lines 50-58
get_client_call(t) ==
    /\ pc[t] = "idle"
    /\ held[t] = None
    /\ IF ~initialized
       THEN enter_initialize(t, "acq")
       ELSE /\ get_client_loop(t, None, available_clients, websocket, flag_connected)
            /\ UNCHANGED <<initialized, lock_holder, lock_waiters, loop_i,
                           successful_connections, histVars>>
    /\ UNCHANGED <<websocket, flag_connected, hcVars>>
    /\ UNCHANGED <<cfgVars, sessionVars, routerVars, shutdownVars, apiVars,
                   periodicVars>>
    /\ UNCHANGED <<message_callback, ghostVars>>

\* the lock is released to the first waiter
lock_granted(t) ==
    /\ pc[t] \in {"init_wait", "get_init_wait"}
    /\ lock_holder = None
    /\ lock_waiters # <<>>
    /\ Head(lock_waiters) = t
    /\ lock_waiters' = Tail(lock_waiters)
    /\ initialize_locked(t, caller(t))
    /\ UNCHANGED <<websocket, flag_connected, hcVars>>
    /\ UNCHANGED <<cfgVars, sessionVars, routerVars, shutdownVars, apiVars,
                   periodicVars>>
    /\ UNCHANGED <<message_callback, ghostVars>>

\* the pool marked initialized only when a connection was made
marks_initialized_if_any(n) == n > 0

\* lines 42-48: with n successful connections; both branches set self.initialized
marks_initialized(n) == TRUE

\* lines 30-48: the connect() of one iteration ends with outcome o
initialize_connected(t, o) ==
    /\ pc[t] \in {"init_connect", "get_init_connect"}
    /\ ConnectPossible(client[t], o)
    /\ LET c == client[t]
           ws == connect_websocket(c, o)
           fl == connect_flag(c, o)
           good == ~connect_raises(o) /\ connected(ws, fl, c)
           av == IF good THEN Append(available_clients, c) ELSE available_clients
       IN  /\ Len(av) <= MaxIdle
           /\ websocket' = ws
           /\ flag_connected' = fl
           /\ IF loop_i[t] + 1 < min_connections
              THEN /\ next_client <= MaxClients
                   /\ loop_i' = [loop_i EXCEPT ![t] = @ + 1]
                   /\ successful_connections' =
                          [successful_connections EXCEPT ![t] = IF good THEN @ + 1 ELSE @]
                   /\ init_connects' = init_connects + 1
                   /\ get_client_awaits(t, pc[t], next_client, av, next_client + 1)
                   /\ UNCHANGED <<initialized, lock_holder, init_runs, init_skipped, closes>>
              ELSE /\ initialized' =
                          marks_initialized(successful_connections[t]
                                                + IF good THEN 1 ELSE 0)
                   /\ lock_holder' = None
                   /\ loop_i' = [loop_i EXCEPT ![t] = 0]
                   /\ successful_connections' = [successful_connections EXCEPT ![t] = 0]
                   /\ after_initialize(t, caller(t), av, ws, fl)
                   /\ UNCHANGED histVars
    /\ UNCHANGED <<lock_waiters, hcVars>>
    /\ UNCHANGED <<cfgVars, sessionVars, routerVars, shutdownVars, apiVars,
                   periodicVars>>
    /\ UNCHANGED <<message_callback, ghostVars>>

----------------------------------------------------------------------------
\* get_client, after its awaits

\* lines 69-78: the reconnect of a popped client ends with outcome o
get_client_reconnected(t, o) ==
    /\ pc[t] = "get_reconnect"
    /\ ConnectPossible(client[t], o)
    /\ LET c == client[t]
           ws == connect_websocket(c, o)
           fl == connect_flag(c, o)
       IN  /\ websocket' = ws
           /\ flag_connected' = fl
           /\ IF connect_raises(o)
              THEN get_client_loop(t, None, available_clients, ws, fl)
              ELSE IF connected(ws, fl, c)
                   THEN get_client_returns(t, c, available_clients)
                   ELSE get_client_loop(t, c, available_clients, ws, fl)
    /\ UNCHANGED <<initialized, lock_holder, lock_waiters, loop_i,
                   successful_connections, hcVars, histVars>>
    /\ UNCHANGED <<cfgVars, sessionVars, routerVars, shutdownVars, apiVars,
                   periodicVars>>
    /\ UNCHANGED <<message_callback, ghostVars>>

\* lines 85-99: the connect of a new client ends with outcome o
get_client_created(t, o) ==
    /\ pc[t] = "get_new"
    /\ ConnectPossible(client[t], o)
    /\ LET c == client[t]
           ws == connect_websocket(c, o)
           fl == connect_flag(c, o)
       IN  /\ websocket' = ws
           /\ flag_connected' = fl
           /\ IF connect_raises(o) \/ ~connected(ws, fl, c)
              THEN get_client_returns(t, None, available_clients)
              ELSE get_client_returns(t, c, available_clients)
    /\ UNCHANGED <<initialized, lock_holder, lock_waiters, loop_i,
                   successful_connections, hcVars, histVars>>
    /\ UNCHANGED <<cfgVars, sessionVars, routerVars, shutdownVars, apiVars,
                   periodicVars>>
    /\ UNCHANGED <<message_callback, ghostVars>>

----------------------------------------------------------------------------
\* OpenAIClientPool.release_client

\* lines 103-107 for the client c; reset_state() (client.py lines 35-37) clears the
\* callback
\* every client taken for one in use
tracked_always(c) == TRUE

\* line 103
tracked(c) == c \in in_use_clients

release(c) ==
    IF tracked(c)
    THEN /\ Len(available_clients) < MaxIdle
         /\ in_use_clients' = in_use_clients \ {c}
         /\ message_callback' = [message_callback EXCEPT ![c] = FALSE]
         /\ available_clients' = Append(available_clients, c)
         /\ released' = "moved"
    ELSE /\ UNCHANGED <<in_use_clients, message_callback, available_clients>>
         /\ released' = "ignored"

\* the session that holds a client releases it
release_client(t) ==
    /\ pc[t] = "idle"
    /\ held[t] # None
    /\ release(held[t])
    /\ held' = [held EXCEPT ![t] = None]
    /\ UNCHANGED <<initialized, lock_holder, lock_waiters, websocket, flag_connected,
                   next_client, pc, client, loop_i, successful_connections, hcVars,
                   histVars, hc_failed, hc_clean>>
    /\ UNCHANGED <<cfgVars, sessionVars, routerVars, shutdownVars, apiVars,
                   periodicVars>>

\* a task calls release_client with a client no session holds: one never acquired,
\* already released, or discarded
release_again(t, c) ==
    /\ pc[t] = "idle"
    /\ c < next_client
    /\ \A u \in Tasks : held[u] # c
    /\ release(c)
    /\ UNCHANGED <<initialized, lock_holder, lock_waiters, websocket, flag_connected,
                   next_client, taskVars, hcVars, histVars, hc_failed, hc_clean>>
    /\ UNCHANGED <<cfgVars, sessionVars, routerVars, shutdownVars, apiVars,
                   periodicVars>>

\* OpenAIWebSocketClient.set_message_callback (client.py lines 46-48), by the holder
set_message_callback(t) ==
    /\ pc[t] = "idle"
    /\ held[t] # None
    /\ ~message_callback[held[t]]
    /\ message_callback' = [message_callback EXCEPT ![held[t]] = TRUE]
    /\ UNCHANGED <<poolVars, websocket, flag_connected, next_client, taskVars, hcVars,
                   histVars, ghostVars>>
    /\ UNCHANGED <<cfgVars, sessionVars, routerVars, shutdownVars, apiVars,
                   periodicVars>>

----------------------------------------------------------------------------
\* OpenAIClientPool.health_check

Max(a, b) == IF a >= b THEN a ELSE b

\* lines 123-125: the for loop over self.available_clients from position i, up to
\* the first client that is not connected; the iterator reads the list by position
RECURSIVE hc_scan(_, _, _, _, _)
hc_scan(av, i, healthy, ws, fl) ==
    IF i > Len(av)
    THEN [index |-> i, healthy |-> healthy, reconnect |-> FALSE]
    ELSE IF connected(ws, fl, av[i])
         THEN hc_scan(av, i + 1, Append(healthy, av[i]), ws, fl)
         ELSE [index |-> i, healthy |-> healthy, reconnect |-> TRUE]

\* line 140
hc_needed(n_available) ==
    Max(0, min_connections - n_available - Cardinality(in_use_clients))

\* lines 123-146 from position i of the for loop to the next await or the end;
\* the clients' fields are ws, fl
hc_continue(i, healthy, ws, fl) ==
    LET r == hc_scan(available_clients, i, healthy, ws, fl)
    IN  IF r.reconnect
        THEN /\ hc_pc' = "reconnect"
             /\ hc_index' = r.index
             /\ healthy_clients' = r.healthy
             /\ hc_client' = available_clients[r.index]
             /\ UNCHANGED <<needed_clients, available_clients, next_client>>
        ELSE IF hc_needed(Len(r.healthy)) > 0
             THEN /\ next_client <= MaxClients
                  /\ hc_pc' = "create"
                  /\ hc_index' = 0
                  /\ healthy_clients' = <<>>
                  /\ hc_client' = next_client
                  /\ needed_clients' = hc_needed(Len(r.healthy))
                  /\ available_clients' = r.healthy
                  /\ next_client' = next_client + 1
             ELSE /\ hc_pc' = "idle"
                  /\ hc_index' = 0
                  /\ healthy_clients' = <<>>
                  /\ hc_client' = None
                  /\ needed_clients' = 0
                  /\ available_clients' = r.healthy
                  /\ next_client' = next_client

\* lines 129-132: the client is kept if connect() returned and it is connected
hc_keeps(o, ws, fl, c) == ~connect_raises(o) /\ connected(ws, fl, c)

\* the periodic task calls health_check()
health_check_call ==
    /\ hc_pc = "idle"
    /\ UNCHANGED <<websocket, flag_connected>>
    /\ hc_continue(1, <<>>, websocket, flag_connected)
    /\ hc_failed' = {}
    /\ hc_clean' = TRUE
    /\ UNCHANGED <<in_use_clients, initialized, lock_holder, lock_waiters, taskVars,
                   histVars>>
    /\ UNCHANGED <<cfgVars, sessionVars, routerVars, shutdownVars, apiVars>>
    /\ UNCHANGED <<message_callback, released>>

\* lines 130-134: the reconnect of an idle client ends with outcome o
health_check_reconnected(o) ==
    /\ hc_pc = "reconnect"
    /\ ConnectPossible(hc_client, o)
    /\ LET ws == connect_websocket(hc_client, o)
           fl == connect_flag(hc_client, o)
       IN  /\ websocket' = ws
           /\ flag_connected' = fl
           /\ hc_continue(hc_index + 1,
                          IF hc_keeps(o, ws, fl, hc_client)
                          THEN Append(healthy_clients, hc_client)
                          ELSE healthy_clients,
                          ws, fl)
           /\ hc_failed' = IF ~connect_raises(o) /\ connected(ws, fl, hc_client)
                           THEN hc_failed ELSE hc_failed \cup {hc_client}
           /\ hc_clean' = (hc_clean /\ ~connect_raises(o) /\ connected(ws, fl, hc_client))
    /\ UNCHANGED <<in_use_clients, initialized, lock_holder, lock_waiters, taskVars,
                   histVars>>
    /\ UNCHANGED <<cfgVars, sessionVars, routerVars, shutdownVars, apiVars>>
    /\ UNCHANGED <<message_callback, released>>

\* lines 143-150: the connect of an additional client ends with outcome o
health_check_created(o) ==
    /\ hc_pc = "create"
    /\ ConnectPossible(hc_client, o)
    /\ websocket' = connect_websocket(hc_client, o)
    /\ flag_connected' = connect_flag(hc_client, o)
    /\ available_clients' =
           IF /\ ~connect_raises(o)
              /\ connected(connect_websocket(hc_client, o), connect_flag(hc_client, o),
                           hc_client)
           THEN Append(available_clients, hc_client) ELSE available_clients
    /\ Len(available_clients') <= MaxIdle
    /\ IF needed_clients > 1
       THEN /\ next_client <= MaxClients
            /\ needed_clients' = needed_clients - 1
            /\ hc_client' = next_client
            /\ next_client' = next_client + 1
            /\ UNCHANGED hc_pc
       ELSE /\ needed_clients' = 0
            /\ hc_client' = None
            /\ hc_pc' = "idle"
            /\ UNCHANGED next_client
    /\ hc_clean' =
           (/\ hc_clean
            /\ ~connect_raises(o)
            /\ connected(connect_websocket(hc_client, o), connect_flag(hc_client, o),
                         hc_client))
    /\ UNCHANGED <<hc_index, healthy_clients, in_use_clients, initialized, lock_holder,
                   lock_waiters, taskVars, histVars>>
    /\ UNCHANGED <<cfgVars, sessionVars, routerVars, shutdownVars, apiVars>>
    /\ UNCHANGED <<message_callback, released, hc_failed>>

----------------------------------------------------------------------------
Next ==
    \/ \E t \in Tasks : initialize_call(t)
    \/ \E t \in Tasks : get_client_call(t)
    \/ \E t \in Tasks : lock_granted(t)
    \/ \E t \in Tasks, o \in ConnectOutcomes : initialize_connected(t, o)
    \/ \E t \in Tasks, o \in ConnectOutcomes : get_client_reconnected(t, o)
    \/ \E t \in Tasks, o \in ConnectOutcomes : get_client_created(t, o)
    \/ \E t \in Tasks : release_client(t)
    \/ health_check_call /\ UNCHANGED periodicVars
    \/ \E o \in ConnectOutcomes : health_check_reconnected(o) /\ UNCHANGED periodicVars
    \/ \E o \in ConnectOutcomes : health_check_created(o) /\ UNCHANGED periodicVars
    \/ \E c \in ClientIds : TransportCloses(c)

Spec == Init /\ [][Next]_vars

----------------------------------------------------------------------------
\* The pool with a health check that no other operation of the pool interleaves
\* with: callers start and resume only while no health check is suspended.  The peer
\* may close a transport at any time.
NextHealth ==
    \/ hc_pc = "idle" /\ \E t \in Tasks : initialize_call(t)
    \/ hc_pc = "idle" /\ \E t \in Tasks : get_client_call(t)
    \/ hc_pc = "idle" /\ \E t \in Tasks : lock_granted(t)
    \/ hc_pc = "idle" /\ \E t \in Tasks, o \in ConnectOutcomes : initialize_connected(t, o)
    \/ hc_pc = "idle" /\ \E t \in Tasks, o \in ConnectOutcomes :
                            get_client_reconnected(t, o)
    \/ hc_pc = "idle" /\ \E t \in Tasks, o \in ConnectOutcomes : get_client_created(t, o)
    \/ hc_pc = "idle" /\ \E t \in Tasks : release_client(t)
    \/ health_check_call /\ UNCHANGED periodicVars
    \/ \E o \in ConnectOutcomes : health_check_reconnected(o) /\ UNCHANGED periodicVars
    \/ \E o \in ConnectOutcomes : health_check_created(o) /\ UNCHANGED periodicVars
    \/ \E c \in ClientIds : TransportCloses(c)

SpecHealth == Init /\ [][NextHealth]_vars

----------------------------------------------------------------------------
\* The pool while it is being initialized: callers of initialize() and of
\* get_client(), no health check, no transport closed by the peer
NextInit ==
    \/ \E t \in Tasks : initialize_call(t)
    \/ \E t \in Tasks : get_client_call(t)
    \/ \E t \in Tasks : lock_granted(t)
    \/ \E t \in Tasks, o \in ConnectOutcomes : initialize_connected(t, o)
    \/ \E t \in Tasks, o \in ConnectOutcomes : get_client_created(t, o)
    \/ \E t \in Tasks : release_client(t)

SpecInit == Init /\ [][NextInit]_vars

\* The pool and sessions that set a callback on the client they hold and call
\* release_client, also for a client they do not hold
NextRelease ==
    \/ \E t \in Tasks : initialize_call(t)
    \/ \E t \in Tasks : get_client_call(t)
    \/ \E t \in Tasks : lock_granted(t)
    \/ \E t \in Tasks, o \in ConnectOutcomes : initialize_connected(t, o)
    \/ \E t \in Tasks, o \in ConnectOutcomes : get_client_created(t, o)
    \/ \E t \in Tasks : set_message_callback(t)
    \/ \E t \in Tasks : release_client(t)
    \/ \E t \in Tasks, c \in ClientIds : release_again(t, c)

SpecRelease == Init /\ [][NextRelease]_vars

\* C5: however many callers enter initialize() concurrently, directly or through
\* get_client(), the connection-establishment loop is entered at most once and makes
\* at most min_connections connect attempts; every other caller returns at the check
\* of self.initialized without connecting.
C5_InitializeOnce ==
    /\ init_runs <= 1
    /\ init_connects <= min_connections
    /\ init_connects <= init_runs * min_connections

\* a caller waited for the lock while the loop ran, then returned without connecting
C5_Witness ==
    /\ initialized
    /\ init_runs = 1
    /\ init_connects = min_connections
    /\ init_skipped >= 1

----------------------------------------------------------------------------
\* Claims about the pool under concurrent callers (Spec)

\* C1: with min_connections <= max_connections, in every reachable state the number
\* of available clients plus the number of in-use clients is at most max_connections.
C1_TotalWithinMaximum ==
    min_connections <= max_connections =>
        Len(available_clients) + Cardinality(in_use_clients) <= max_connections

\* C2: in every reachable state the number of in-use clients is at most
\* max_connections, also when several get_client() calls interleave at their connects.
C2_InUseWithinMaximum == Cardinality(in_use_clients) <= max_connections

\* C3: in every reachable state no client is both in the available list and in the
\* in-use set.
C3_Disjoint == Range(available_clients) \cap in_use_clients = {}

\* C4: a client get_client() returned is not returned by another get_client() until
\* it has been released: no two sessions hold the same client.
C4_Exclusive ==
    \A t1, t2 \in Tasks : (t1 # t2 /\ held[t1] # None) => held[t1] # held[t2]

\* C6: when the in-use set is at max_connections and no usable idle client exists
\* (the list is empty, and a client get_client() popped and reconnected is still not
\* connected), get_client() returns no client, constructs none and leaves the in-use
\* set unchanged.
C6_NoClientAtCapacity ==
    [][\A t \in Tasks :
          (/\ Cardinality(in_use_clients) = max_connections
           /\ available_clients = <<>>
           /\ \/ initialized /\ get_client_call(t)
              \/ \E o \in ConnectOutcomes :
                    /\ get_client_reconnected(t, o)
                    /\ ~connected(websocket', flag_connected', client[t]))
          => (/\ held'[t] = None
              /\ in_use_clients' = in_use_clients
              /\ next_client' = next_client)]_vars

\* C7: every client get_client() returns is connected at the moment it is returned
\* and put in the in-use set.
C7_ReturnedIsConnected ==
    [][\A t \in Tasks :
          (held[t] = None /\ held'[t] # None)
          => (/\ held'[t] \in in_use_clients'
              /\ connected(websocket', flag_connected', held'[t]))]_vars

----------------------------------------------------------------------------
\* One session: OpenAIMessageHandler over its StreamState (openai_handler.py).
\* process_openai_messages awaits each process_response before it receives the next
\* event, and no other coroutine touches the handler's state: one action is the
\* handling of one event.  Durations are whole milliseconds.

\* OpenAIWebSocketClient.send of the session's client, client.py lines 172-220:
\* "ok" needs an open transport; "raises" clears _connected
SendOutcomes == {"ok", "raises"}
send_possible(o) == o = "ok" => session_websocket = "open"
send_connected(o) == IF o = "raises" THEN FALSE ELSE session_connected

\* websocket.send_json to the client: "ok", "closed" (RuntimeError naming
\* websocket.close, lines 132-135), "error" (anything else, caught at line 149)
SendJsonOutcomes == {"ok", "closed", "error"}

\* the threshold of line 188 never met
too_short_never(duration) == FALSE

\* line 188: the audio is too short to truncate
too_short(duration) == duration < 400

\* line 193 without the factor 0.9
safe_truncate_time_full(duration) == Max(100 * 10, duration * 10)

\* line 193: max(100, actual_audio_duration * 0.9), in tenths of a millisecond
safe_truncate_time(duration) == Max(100 * 10, duration * 9)

\* line 202: int() of a value given in tenths of a millisecond
int_ms(tenths) == tenths \div 10

\* lines 198-203
truncate_event(o) ==
    [type |-> "conversation.item.truncate",
     item_id |-> last_assistant_item,
     content_index |-> 0,
     audio_end_ms |-> int_ms(safe_truncate_time(audio_duration_ms)),
     delivered |-> o = "ok"]

\* lines 223-228 only: the item id of line 222 survives
reset_audio_tracking_keeps_item ==
    /\ last_assistant_item' = last_assistant_item
    /\ response_start_time' = NoTime
    /\ is_assistant_speaking' = FALSE
    /\ audio_duration_ms' = 0
    /\ audio_start_time' = NoTime
    /\ audio_chunk_count' = NoCount

\* _reset_audio_tracking, lines 220-228
reset_audio_tracking ==
    /\ last_assistant_item' = None
    /\ response_start_time' = NoTime
    /\ is_assistant_speaking' = FALSE
    /\ audio_duration_ms' = 0
    /\ audio_start_time' = NoTime
    /\ audio_chunk_count' = NoCount

tracking == <<last_assistant_item, response_start_time, is_assistant_speaking,
              audio_duration_ms, audio_start_time, audio_chunk_count>>

\* lines 180-182 left out
no_item_never(item) == FALSE

\* lines 180-182: there is no assistant item to interrupt
no_item(item) == item = None

\* _handle_interruption, lines 177-210; o is the outcome of the send of line 204
handle_interruption(o) ==
    IF no_item(last_assistant_item) \/ too_short(audio_duration_ms)
    THEN /\ upstream_sent' = <<>>
         /\ UNCHANGED <<tracking, session_connected>>
    ELSE /\ send_possible(o)
         /\ upstream_sent' = <<truncate_event(o)>>
         /\ session_connected' = send_connected(o)
         /\ IF o = "ok" THEN reset_audio_tracking ELSE UNCHANGED tracking

\* line 158 with the test always false
interrupts_never(speaking) == FALSE

\* line 158: an ongoing response is interrupted
interrupts(speaking) == speaking

\* _handle_speech_started, lines 152-166
handle_speech_started(o) ==
    /\ last_event' = "speech_started"
    /\ tool_calls' = <<>>
    /\ IF interrupts(is_assistant_speaking)
       THEN handle_interruption(o)
       ELSE /\ upstream_sent' = <<>>
            /\ UNCHANGED <<tracking, session_connected>>
    /\ audio_since_truncate' =
           IF upstream_sent' # <<>> /\ upstream_sent'[1].delivered THEN FALSE
           ELSE audio_since_truncate
    /\ is_user_speaking' = TRUE
    /\ latest_timestamp' = now
    /\ client_sent' = <<>>
    /\ UNCHANGED <<now, client_state, session_websocket, allPoolVars>>

\* _handle_speech_stopped, lines 168-175
handle_speech_stopped ==
    /\ last_event' = "speech_stopped"
    /\ UNCHANGED audio_since_truncate
    /\ tool_calls' = <<>>
    /\ is_user_speaking' = FALSE
    /\ upstream_sent' = <<>>
    /\ client_sent' = <<>>
    /\ UNCHANGED <<latest_timestamp, tracking, envVars, allPoolVars>>

\* _handle_response_done, lines 212-218
handle_response_done ==
    /\ last_event' = "response_done"
    /\ UNCHANGED audio_since_truncate
    /\ tool_calls' = <<>>
    /\ reset_audio_tracking
    /\ upstream_sent' = <<>>
    /\ client_sent' = <<>>
    /\ UNCHANGED <<latest_timestamp, is_user_speaking, envVars, allPoolVars>>

\* lines 101-104 alone, without the test of the client's transport
skips_audio_no_payload(state, has_delta) == ~has_delta

\* lines 94-96 and 101-104: the event is dropped before anything is tracked
skips_audio(state, has_delta) == state # "CONNECTED" \/ ~has_delta

\* line 112 on every chunk
turn_start_every_chunk(first, t, start) == t

\* lines 107-112: the turn starts at the chunk that finds no chunk counter
turn_start(first, t, start) == IF first THEN t ELSE start

\* lines 143-144 left out
response_start_kept(start, latest) == start

\* lines 143-144: the response starts at the latest timestamp of the state
response_start(start, latest) == IF start = NoTime THEN latest ELSE start

\* _handle_audio_delta, lines 90-150, for an event with or without a payload in
\* 'delta' and with item_id = item (None: absent); so is the outcome of send_json
handle_audio_delta(has_delta, item, so) ==
    /\ last_event' = "audio_delta"
    /\ tool_calls' = <<>>
    /\ audio_since_truncate' =
           IF ~skips_audio(client_state, has_delta) /\ so = "ok" THEN TRUE
           ELSE audio_since_truncate
    /\ upstream_sent' = <<>>
    /\ IF skips_audio(client_state, has_delta)
       THEN /\ client_sent' = <<>>
            /\ UNCHANGED tracking
       ELSE LET first == audio_chunk_count = NoCount
                start == turn_start(first, now, audio_start_time)
            IN  /\ audio_chunk_count < MaxChunks
                /\ audio_chunk_count' = audio_chunk_count + 1
                /\ audio_start_time' = start
                /\ audio_duration_ms' =
                       IF start # NoTime /\ start # 0 THEN now - start
                       ELSE IF first THEN 0 ELSE audio_duration_ms
                /\ client_sent' = <<[type |-> "audio", delivered |-> so = "ok"]>>
                /\ IF so = "ok"
                   THEN /\ last_assistant_item' =
                               IF item # None THEN item ELSE last_assistant_item
                        /\ response_start_time' =
                               response_start(response_start_time, latest_timestamp)
                        /\ is_assistant_speaking' = TRUE
                   ELSE UNCHANGED <<last_assistant_item, response_start_time,
                                    is_assistant_speaking>>
    /\ UNCHANGED <<latest_timestamp, is_user_speaking, envVars, allPoolVars>>

\* the wall clock advances
Tick(t) ==
    /\ t > now
    /\ now' = t
    /\ UNCHANGED <<client_state, session_websocket, session_connected, stateVars,
                   trackVars, logVars, allPoolVars>>

\* the client goes away
ClientDisconnects ==
    /\ client_state = "CONNECTED"
    /\ client_state' = "DISCONNECTED"
    /\ UNCHANGED <<now, session_websocket, session_connected, stateVars, trackVars,
                   logVars, allPoolVars>>

\* the upstream service closes the session's transport
UpstreamCloses ==
    /\ session_websocket = "open"
    /\ session_websocket' = "closed"
    /\ UNCHANGED <<now, client_state, session_connected, stateVars, trackVars, logVars,
                   allPoolVars>>

\* process_response handles one event, lines 39-75
handles_event ==
    \/ \E o \in SendOutcomes : handle_speech_started(o)
    \/ handle_speech_stopped
    \/ handle_response_done
    \/ \E d \in BOOLEAN, i \in Items \cup {None}, so \in SendJsonOutcomes :
          handle_audio_delta(d, i, so)

\* the handler alone: the router's coroutines stay where they are
NextSession ==
    \/ \E o \in SendOutcomes : handle_speech_started(o) /\ UNCHANGED routerVars
    \/ handle_speech_stopped /\ UNCHANGED routerVars
    \/ handle_response_done /\ UNCHANGED routerVars
    \/ \E d \in BOOLEAN, i \in Items \cup {None}, so \in SendJsonOutcomes :
          handle_audio_delta(d, i, so) /\ UNCHANGED routerVars
    \/ \E t \in Instants : Tick(t) /\ UNCHANGED routerVars
    \/ ClientDisconnects /\ UNCHANGED routerVars
    \/ UpstreamCloses /\ UNCHANGED routerVars

\* the pool plays no part in a session: one pool is enough
InitSession == Init /\ min_connections = 2

SpecSession == InitSession /\ [][NextSession]_vars

----------------------------------------------------------------------------
\* Claims about interruption handling (SpecSession)

\* floor(max(100, 0.9 * D)) for a duration D in whole milliseconds
FloorOfSafePoint(D) ==
    CHOOSE n \in 0..(D + 100) :
        /\ 10 * n <= Max(1000, 9 * D)
        /\ 10 * (n + 1) > Max(1000, 9 * D)

truncates(sent) == {i \in 1..Len(sent) : sent[i].type = "conversation.item.truncate"}

C10_ShortTurnStillReset ==
    [][\A o \in SendOutcomes :
          (/\ handle_speech_started(o)
           /\ is_assistant_speaking
           /\ last_assistant_item # None
           /\ audio_duration_ms < 400)
          => /\ truncates(upstream_sent') = {}
             /\ last_assistant_item' = None
             /\ response_start_time' = NoTime
             /\ is_assistant_speaking' = FALSE
             /\ audio_duration_ms' = 0
             /\ audio_chunk_count' = NoCount]_vars

\* C11: whenever the interruption runs with a recorded item and a turn duration of at
\* least 400 ms, the truncate command names the item recorded in the state with
\* content_index 0, and when the handler has finished the turn-tracking state is
\* reset as response-done resets it, also when the send of the command fails.
C11_ResetAfterTruncate ==
    [][\A o \in SendOutcomes :
          (/\ handle_speech_started(o)
           /\ is_assistant_speaking
           /\ last_assistant_item # None
           /\ audio_duration_ms >= 400)
          => /\ Len(upstream_sent') = 1
             /\ upstream_sent'[1].item_id = last_assistant_item
             /\ upstream_sent'[1].content_index = 0
             /\ last_assistant_item' = None
             /\ response_start_time' = NoTime
             /\ is_assistant_speaking' = FALSE
             /\ audio_duration_ms' = 0
             /\ audio_start_time' = NoTime
             /\ audio_chunk_count' = NoCount]_vars

----------------------------------------------------------------------------
\* Function calls (openai_handler.py lines 243-286, tool_response.py lines 8-31)

CallIds == {1, 2}
ToolOutcomes == {"returns", "raises"}

\* every tool reported as a success
tool_status_success(tool) == "success"

\* lines 254-273: the status of the result, by how execute_function ended
tool_status(tool) == IF tool = "returns" THEN "success" ELSE "error"

\* tool_response.py lines 12-19
function_result(call, tool, o) ==
    [type |-> "function_call_output", call_id |-> call, status |-> tool_status(tool),
     delivered |-> o = "ok"]

\* tool_response.py lines 25-28
response_create(o) == [type |-> "response.create", delivered |-> o = "ok"]

\* line 253 with the call id alone
executes_with_call_id(has_name, call) == call # None

\* line 253: the function is executed when the event has a call id and a name
executes(has_name, call) == call # None /\ has_name

\* _handle_function_call for an event with or without a name and with call_id = call
\* (None: absent); o1, o2 are the outcomes of the two sends of send_tool_result, which
\* logs a send that raises and returns
handle_function_call(has_name, call, tool, o1, o2) ==
    /\ last_event' = "function_call"
    /\ UNCHANGED audio_since_truncate
    /\ client_sent' = <<>>
    /\ tool_calls' = IF executes(has_name, call) THEN <<tool>> ELSE <<>>
    /\ IF executes(has_name, call)
       THEN /\ send_possible(o1)
            /\ IF o1 = "raises"
               THEN /\ upstream_sent' = <<function_result(call, tool, o1)>>
                    /\ session_connected' = send_connected(o1)
               ELSE /\ send_possible(o2)
                    /\ upstream_sent' =
                           <<function_result(call, tool, o1), response_create(o2)>>
                    /\ session_connected' = send_connected(o2)
       ELSE /\ upstream_sent' = <<>>
            /\ UNCHANGED session_connected
    /\ UNCHANGED <<latest_timestamp, is_user_speaking, tracking, now, client_state,
                   session_websocket, allPoolVars>>

----------------------------------------------------------------------------
\* One session: websocket_endpoint (router.py).  The endpoint constructs its own
\* OpenAIWebSocketClient (line 32) and runs receive_audio and process_openai_messages
\* under asyncio.gather (line 153).  Of the events the handler serves, this part
\* follows the ones that leave the audio tracking alone.

\* the client of line 32: an object the pool never constructed
SessionClient == MaxClients + 1

\* property connected of the session's client
session_is_connected == session_connected /\ session_websocket = "open"

\* what a frame from upstream may hold: a JSON object, another JSON value, text that
\* is not JSON, bytes
Payloads == {"object", "array", "scalar", "null", "not_json", "binary"}

\* OpenAIWebSocketClient.receive_message on a frame, client.py lines 229-274:
\* json.loads, then parsed_message.get("type", ...) at line 239, which only a dict
\* has; the AttributeError is not a JSONDecodeError and is re-raised at line 274
receive_message(payload) ==
    CASE payload = "object" -> "message"
      [] payload = "not_json" -> "parse_error"
      [] payload = "binary" -> "binary"
      [] OTHER -> "raises"

\* range(5) of line 129
PollBatch == 5

\* the frames a client sends: one forwarded by one send, one by two, one by none,
\* and one that json.loads or data["audio"] rejects
ClientFrames == {"audio", "end_speaking", "session.create", "malformed"}

\* lines 41-53 and 153: the confirmation is sent and both coroutines start; a
\* send_json that raises goes to the handlers of lines 155-165 and the finally
ep_start(so) ==
    /\ ep_pc = "ready"
    /\ so = "ok" => client_state = "CONNECTED"
    /\ IF so = "ok"
       THEN /\ ep_pc' = "gather"
            /\ ra_pc' = "waiting"
            /\ pm_pc' = "check"
            /\ UNCHANGED allPoolVars
       ELSE /\ ep_pc' = "finished"
            /\ release(SessionClient)
            /\ UNCHANGED <<shutdownVars, apiVars, periodicVars>>
            /\ UNCHANGED <<ra_pc, pm_pc, cfgVars, initialized, lock_holder,
                           lock_waiters, websocket, flag_connected, next_client,
                           taskVars, hcVars, histVars, hc_failed, hc_clean>>
    /\ UNCHANGED <<pm_i, recv_payload, recv_result, sessionVars>>

\* receive_audio, lines 57-118: one frame from the client; o1, o2 are the outcomes
\* of the sends it makes
ra_frame(kind, o1, o2) ==
    /\ ra_pc = "waiting"
    /\ client_state = "CONNECTED"
    /\ CASE kind = "malformed" ->
              /\ ra_pc' = "raised"
              /\ UNCHANGED session_connected
         [] kind = "session.create" ->
              UNCHANGED <<ra_pc, session_connected>>
         [] kind = "audio" ->
              /\ send_possible(o1)
              /\ session_connected' = send_connected(o1)
              /\ ra_pc' = IF o1 = "raises" THEN "raised" ELSE "waiting"
         [] kind = "end_speaking" ->
              /\ send_possible(o1)
              /\ IF o1 = "raises"
                 THEN /\ session_connected' = send_connected(o1)
                      /\ ra_pc' = "raised"
                 ELSE /\ send_possible(o2)
                      /\ session_connected' = send_connected(o2)
                      /\ ra_pc' = IF o2 = "raises" THEN "raised" ELSE "waiting"
    /\ UNCHANGED <<ep_pc, pm_pc, pm_i, recv_payload, recv_result, stateVars, trackVars,
                   logVars, now, client_state, session_websocket, allPoolVars>>

\* receive_audio: iter_text ends when the client has disconnected; lines 114-115
ra_disconnected ==
    /\ ra_pc = "waiting"
    /\ client_state = "DISCONNECTED"
    /\ ra_pc' = "done"
    /\ UNCHANGED <<ep_pc, pm_pc, pm_i, recv_payload, recv_result, sessionVars,
                   allPoolVars>>

\* process_openai_messages, lines 122-129: the test of connected
pm_check ==
    /\ pm_pc = "check"
    /\ pm_pc' = IF session_is_connected THEN "receive" ELSE "done"
    /\ pm_i' = 0
    /\ UNCHANGED <<ep_pc, ra_pc, recv_payload, recv_result, sessionVars, allPoolVars>>

\* lines 131-138 and 145: no frame within the timeout; the loop sleeps
pm_timeout ==
    /\ pm_pc = "receive"
    /\ session_websocket = "open"
    /\ pm_pc' = "check"
    /\ UNCHANGED <<ep_pc, ra_pc, pm_i, recv_payload, recv_result, sessionVars,
                   allPoolVars>>

\* lines 139-141: recv raises ConnectionClosed (client.py lines 267-270)
pm_closed ==
    /\ pm_pc = "receive"
    /\ session_websocket = "closed"
    /\ session_connected' = FALSE
    /\ pm_pc' = "done"
    /\ UNCHANGED <<ep_pc, ra_pc, pm_i, recv_payload, recv_result, stateVars, trackVars,
                   logVars, now, client_state, session_websocket, allPoolVars>>

\* an exception of receive_message ends process_openai_messages
after_receive_ends(result) == IF result = "raises" THEN "done" ELSE "handling"

\* lines 135 and 142-145: the frame goes to process_response; an exception of
\* receive_message is logged and the while loop goes on
after_receive(result) == IF result = "raises" THEN "check" ELSE "handling"

\* lines 131-135 and 142-145: a frame arrives; an exception of receive_message other
\* than the two caught inside the for loop ends the batch and is logged
pm_receive(payload) ==
    /\ pm_pc = "receive"
    /\ session_websocket = "open"
    /\ recv_payload' = payload
    /\ recv_result' = receive_message(payload)
    /\ pm_pc' = after_receive(receive_message(payload))
    /\ UNCHANGED <<ep_pc, ra_pc, pm_i, sessionVars, allPoolVars>>

\* process_response has returned (it catches every Exception, lines 74-75): the for
\* loop goes on, or the batch is over
pm_handled ==
    /\ pm_i' = pm_i + 1
    /\ pm_pc' = IF pm_i + 1 = PollBatch THEN "check" ELSE "receive"
    /\ UNCHANGED <<ep_pc, ra_pc, recv_payload, recv_result>>

\* process_response on a dict without 'type' (the parse-error record, the record of
\* a binary frame) or of a type that is only logged: lines 46-49 and 51-52, 71-72
process_untyped ==
    /\ last_event' = "untyped"
    /\ UNCHANGED audio_since_truncate
    /\ tool_calls' = <<>>
    /\ upstream_sent' = <<>>
    /\ client_sent' = <<>>
    /\ UNCHANGED <<stateVars, trackVars, envVars, allPoolVars>>

pm_untyped ==
    /\ pm_pc = "handling"
    /\ process_untyped
    /\ pm_handled

pm_function_call(has_name, call, tool, o1, o2) ==
    /\ pm_pc = "handling"
    /\ recv_result = "message"
    /\ handle_function_call(has_name, call, tool, o1, o2)
    /\ pm_handled

pm_speech_stopped ==
    /\ pm_pc = "handling"
    /\ recv_result = "message"
    /\ handle_speech_stopped
    /\ pm_handled

pm_response_done ==
    /\ pm_pc = "handling"
    /\ recv_result = "message"
    /\ handle_response_done
    /\ pm_handled

\* line 153 returns: both coroutines have returned; then the finally, lines 166-169
ep_gather_returns ==
    /\ ep_pc = "gather"
    /\ ra_pc = "done"
    /\ pm_pc = "done"
    /\ ep_pc' = "finished"
    /\ release(SessionClient)
    /\ UNCHANGED <<shutdownVars, apiVars, periodicVars>>
    /\ UNCHANGED <<ra_pc, pm_pc, pm_i, recv_payload, recv_result, sessionVars>>
    /\ UNCHANGED <<cfgVars, initialized, lock_holder, lock_waiters, websocket,
                   flag_connected, next_client, taskVars, hcVars, histVars, hc_failed,
                   hc_clean>>

\* line 153 raises what receive_audio raised; gather leaves the other coroutine
\* running; lines 157-165 (the send_json may fail, which is ignored), then the finally
ep_gather_raises ==
    /\ ep_pc = "gather"
    /\ ra_pc = "raised"
    /\ ep_pc' = "finished"
    /\ release(SessionClient)
    /\ UNCHANGED <<shutdownVars, apiVars, periodicVars>>
    /\ UNCHANGED <<ra_pc, pm_pc, pm_i, recv_payload, recv_result, sessionVars>>
    /\ UNCHANGED <<cfgVars, initialized, lock_holder, lock_waiters, websocket,
                   flag_connected, next_client, taskVars, hcVars, histVars, hc_failed,
                   hc_clean>>

\* what the coroutines of the session do
RouterSteps ==
    \/ \E so \in SendJsonOutcomes : ep_start(so)
    \/ ra_disconnected
    \/ pm_check
    \/ pm_timeout
    \/ pm_closed
    \/ pm_untyped
    \/ \E n \in BOOLEAN, c \in CallIds \cup {None}, tl \in ToolOutcomes,
          o1, o2 \in SendOutcomes : pm_function_call(n, c, tl, o1, o2)
    \/ pm_speech_stopped
    \/ pm_response_done
    \/ ep_gather_returns
    \/ ep_gather_raises

\* what the client and the upstream service do
NextRouter ==
    \/ RouterSteps
    \/ \E k \in ClientFrames, o1, o2 \in SendOutcomes : ra_frame(k, o1, o2)
    \/ \E p \in Payloads : pm_receive(p)
    \/ ClientDisconnects /\ UNCHANGED routerVars
    \/ UpstreamCloses /\ UNCHANGED routerVars

SpecRouter == InitSession /\ [][NextRouter]_vars

\* asyncio runs every coroutine that can run: a step of the endpoint, of
\* receive_audio or of process_openai_messages that stays possible is taken
EpSteps ==
    \/ \E so \in SendJsonOutcomes : ep_start(so)
    \/ ep_gather_returns
    \/ ep_gather_raises

PmSteps ==
    \/ pm_check
    \/ pm_timeout
    \/ pm_closed
    \/ pm_untyped
    \/ \E n \in BOOLEAN, c \in CallIds \cup {None}, tl \in ToolOutcomes,
          o1, o2 \in SendOutcomes : pm_function_call(n, c, tl, o1, o2)
    \/ pm_speech_stopped
    \/ pm_response_done

FairRouter ==
    SpecRouter /\ WF_vars(EpSteps) /\ WF_vars(ra_disconnected) /\ WF_vars(PmSteps)

----------------------------------------------------------------------------
\* Claims about the session's two directions (SpecRouter, FairRouter)

\* C12: for a function-call-arguments-done event with a name and a call_id, the
\* handler hands to the upstream send a function-result message for that call_id
\* (status success when the tool returned, error when it raised) and, once that send
\* has returned, a response.create message and nothing else; process_openai_messages
\* stays in its loop, and when both sends succeed the connection is as before.
C12_FunctionResultThenResponse ==
    [][\A call \in CallIds, tl \in ToolOutcomes, o1, o2 \in SendOutcomes :
          pm_function_call(TRUE, call, tl, o1, o2)
          => /\ Len(upstream_sent') >= 1
             /\ upstream_sent'[1].type = "function_call_output"
             /\ upstream_sent'[1].call_id = call
             /\ upstream_sent'[1].status = IF tl = "raises" THEN "error" ELSE "success"
             /\ o1 = "ok" => /\ Len(upstream_sent') = 2
                             /\ upstream_sent'[2].type = "response.create"
             /\ o1 = "raises" => Len(upstream_sent') = 1
             /\ pm_pc' \in {"receive", "check"}
             /\ (o1 = "ok" /\ o2 = "ok") => session_connected' = session_connected
       ]_vars

\* the tool raised: the error result and the response.create were both sent, and the
\* loop goes on
C12_Witness ==
    /\ last_event = "function_call"
    /\ Len(upstream_sent) = 2
    /\ upstream_sent[1].status = "error"
    /\ upstream_sent[1].delivered
    /\ upstream_sent[2].type = "response.create"
    /\ upstream_sent[2].delivered
    /\ pm_pc = "receive"
    /\ session_is_connected

\* C13: receive_message never raises because of what a frame holds: for text that
\* is not JSON and for JSON that is not an object it returns the parse-error record.
C13_MalformedYieldsSentinel ==
    recv_payload \in {"not_json", "array", "scalar", "null"}
        => recv_result = "parse_error"

\* C14: once receive_audio has seen the client disconnect, both directions
\* eventually stop and the endpoint reaches the end of its cleanup, also while the
\* upstream connection stays open and silent.
C14_ClientCloseEndsSession ==
    (client_state = "DISCONNECTED" /\ ra_pc = "done")
        ~> (pm_pc = "done" /\ ep_pc = "finished")

\* C15: once the upstream transport is closed, both directions eventually stop and
\* the endpoint reaches the end of its cleanup, also while the client stays connected
\* and sends nothing.
C15_UpstreamCloseEndsSession ==
    (session_websocket = "closed" /\ ep_pc = "gather")
        ~> (ra_pc \in {"done", "raised"} /\ pm_pc = "done" /\ ep_pc = "finished")

\* C16: when the endpoint has finished its cleanup, the connection the session used
\* is in the pool's available list or its transport is closed: it is never left open
\* and untracked.
C16_ReleasedAfterSession ==
    ep_pc = "finished"
        => (SessionClient \in Range(available_clients) \/ session_websocket # "open")

----------------------------------------------------------------------------
\* Claims about release_client (Spec, SpecRelease)

\* C17: release_client of an in-use client that is not connected discards it: after
\* the release the client is neither in the available list nor in the in-use set.
C17_DeadReleaseDiscards ==
    [][\A t \in Tasks :
          (/\ release_client(t)
           /\ held[t] \in in_use_clients
           /\ ~IsConnected(held[t]))
          => (/\ held[t] \notin Range(available_clients')
              /\ held[t] \notin in_use_clients')]_vars

\* the list holds no client twice
NoDuplicates(q) == \A i, j \in 1..Len(q) : q[i] = q[j] => i = j

\* C18: release_client moves the client from the in-use set to the end of the
\* available list and clears its callback if the client is in the in-use set;
\* otherwise it changes neither collection nor any callback.  A client just released
\* is no longer in use, so a second release changes nothing and the list never holds
\* a client twice.
C18_ReleaseOnlyIfInUse ==
    [][\A t \in Tasks, c \in ClientIds :
          ((release_client(t) /\ c = held[t]) \/ release_again(t, c))
          => /\ IF c \in in_use_clients
                THEN /\ in_use_clients' = in_use_clients \ {c}
                     /\ available_clients' = Append(available_clients, c)
                     /\ ~message_callback'[c]
                     /\ \A d \in ClientIds \ {c} :
                            message_callback'[d] = message_callback[d]
                ELSE /\ in_use_clients' = in_use_clients
                     /\ available_clients' = available_clients
                     /\ message_callback' = message_callback
             /\ c \notin in_use_clients'
             /\ NoDuplicates(available_clients')]_vars

\* a client released before, its callback cleared, was released again and ignored
C18_Witness ==
    /\ released = "ignored"
    /\ \E c \in Range(available_clients) : ~message_callback[c]
    /\ \E c \in in_use_clients : message_callback[c]

----------------------------------------------------------------------------
\* Claims about health_check (SpecHealth)

\* a step of the first part of health_check, lines 122-137
hc_examines == health_check_call \/ \E o \in ConnectOutcomes : health_check_reconnected(o)

\* the clients health_check has kept so far: healthy_clients while it is suspended
\* in a reconnect, the list it assigned at line 137 after that
hc_kept_before == IF hc_pc = "reconnect" THEN Range(healthy_clients) ELSE {}

\* C19: every client health_check keeps was connected when it was examined, or was
\* connected after the one reconnect made for it; a client whose reconnect failed is
\* reconnected no second time and is not in the available list health_check assigns.
C19_HealthCheckKeepsLive ==
    [][/\ hc_examines =>
            /\ \A c \in (IF hc_pc' = "reconnect" THEN Range(healthy_clients')
                         ELSE Range(available_clients')) \ hc_kept_before :
                  connected(websocket', flag_connected', c)
            /\ hc_pc' # "reconnect" =>
                  /\ hc_kept_before \subseteq Range(available_clients')
                  /\ hc_failed' \cap Range(available_clients') = {}
       /\ \A o \in ConnectOutcomes :
             health_check_reconnected(o) => hc_client \notin hc_failed
      ]_vars

\* C20: a health_check in which every connect succeeded, run without another pool
\* operation in between, leaves at least min_connections available clients however
\* many are in use, and health_check constructs no client while the available list
\* has min_connections clients or more.
C20_ReplenishToMinimum ==
    [][(hc_examines \/ \E o \in ConnectOutcomes : health_check_created(o)) =>
          /\ (hc_pc' = "idle" /\ hc_clean') =>
                Len(available_clients') >= min_connections
          /\ next_client' # next_client =>
                Len(available_clients') < min_connections
      ]_vars

----------------------------------------------------------------------------
\* Claims about mutual exclusion in the pool (Spec)

\* the periodic task, named like a caller
HealthTask == 0

\* the operations suspended in a connect() between two accesses to available_clients
\* and in_use_clients: get_client at line 69 or 85, health_check at line 130 or 146
in_section ==
    {t \in Tasks : pc[t] \in {"get_reconnect", "get_new"}}
        \cup (IF hc_pc # "idle" THEN {HealthTask} ELSE {})

\* another caller than s begins get_client past its initialize, release_client or
\* health_check in this step
other_starts(s) ==
    \/ \E u \in Tasks \ {s} : initialized /\ get_client_call(u)
    \/ \E u \in Tasks \ {s} : release_client(u)
    \/ s # HealthTask /\ health_check_call

\* C21: while a get_client or a health_check is suspended between its first and its
\* last access to available_clients and in_use_clients, no other get_client,
\* release_client or health_check reads or changes them.
C21_MutualExclusion ==
    [][\A s \in in_section : ~other_starts(s)]_vars

----------------------------------------------------------------------------
\* OpenAIWebSocketClient used directly: one user calls connect, send,
\* receive_message and close on a few objects, one call at a time, and the peer
\* closes transports.  The objects are fresh: websocket None, _connected False.

NumObjects == 2    \* client objects the user calls
ApiClients == 1..NumObjects

CloseOutcomes == {"ok", "raises"}

\* the fields cleared only when websocket.close() returned
close_clears_on_success(o) == o = "ok"

\* close(), lines 284-286: the finally runs however websocket.close() ended
close_clears(o) == TRUE

\* close(), lines 278-286, on the fields ws, fl
close_websocket(ws, c, o) ==
    IF ws[c] # "none" /\ close_clears(o) THEN [ws EXCEPT ![c] = "none"] ELSE ws

close_flag(ws, fl, c, o) ==
    IF ws[c] # "none" /\ close_clears(o) THEN [fl EXCEPT ![c] = FALSE] ELSE fl

\* send(), lines 174-220: how the call ends
send_result(ws, c, o) ==
    IF ws[c] = "none" THEN "not_connected"              \* RuntimeError, line 176
    ELSE IF ws[c] = "closed" THEN "connection_closed"   \* ConnectionClosed, line 182
    ELSE IF o = "ok" THEN "sent"
    ELSE "send_error"                                   \* lines 209, 220

send_flag(ws, fl, c, o) ==
    IF send_result(ws, c, o) \in {"connection_closed", "send_error"}
    THEN [fl EXCEPT ![c] = FALSE] ELSE fl

\* connect(), line 67: initialize_session runs only when _connected is false
initializes_session(c) == ~flag_connected[c]

\* whether the session configuration has been sent on the transport c holds after
\* a connect() that ended with outcome o
connect_session(c, o) ==
    CASE o = "open_fails" -> session_sent
      [] o = "init_fails" -> [session_sent EXCEPT ![c] = FALSE]
      [] OTHER -> [session_sent EXCEPT ![c] = initializes_session(c)]

api_keeps == <<cfgVars, poolVars, next_client, message_callback, taskVars, hcVars,
               histVars, ghostVars, shutdownVars, periodicVars, sessionVars,
               routerVars>>

\* connect() on object c ends with outcome o
client_connect(c, o) ==
    /\ ConnectPossible(c, o)
    /\ websocket' = connect_websocket(c, o)
    /\ flag_connected' = connect_flag(c, o)
    /\ session_sent' = connect_session(c, o)
    /\ ever_connected' =
           IF connect_raises(o) THEN ever_connected
           ELSE [ever_connected EXCEPT ![c] = TRUE]
    /\ closed_by_close' =
           IF o = "open_fails" THEN closed_by_close
           ELSE [closed_by_close EXCEPT ![c] = (o = "init_fails")]
    /\ api_call' = [op |-> "connect", client |-> c, outcome |-> o,
                    result |-> IF connect_raises(o) THEN "raised" ELSE "returned",
                    was_connected |-> IsConnected(c)]
    /\ UNCHANGED api_keeps

\* send(message) on object c; o is the outcome of websocket.send when it is reached
client_send(c, o) ==
    /\ websocket' = websocket
    /\ flag_connected' = send_flag(websocket, flag_connected, c, o)
    /\ api_call' = [op |-> "send", client |-> c, outcome |-> o,
                    result |-> send_result(websocket, c, o),
                    was_connected |-> IsConnected(c)]
    /\ UNCHANGED <<ever_connected, closed_by_close, session_sent>>
    /\ UNCHANGED api_keeps

\* receive_message() on object c, lines 224-274, with a frame waiting or the
\* transport closed
client_receive(c) ==
    /\ websocket' = websocket
    /\ flag_connected' = IF websocket[c] = "closed"
                         THEN [flag_connected EXCEPT ![c] = FALSE] ELSE flag_connected
    /\ api_call' = [op |-> "receive", client |-> c, outcome |-> "none",
                    result |-> IF websocket[c] = "open" THEN "returned" ELSE "raised",
                    was_connected |-> IsConnected(c)]
    /\ UNCHANGED <<ever_connected, closed_by_close, session_sent>>
    /\ UNCHANGED api_keeps

\* close() on object c; o is the outcome of websocket.close() when it is reached
client_close(c, o) ==
    /\ websocket' = close_websocket(websocket, c, o)
    /\ flag_connected' = close_flag(websocket, flag_connected, c, o)
    /\ closed_by_close' = [closed_by_close EXCEPT ![c] = TRUE]
    /\ session_sent' = [session_sent EXCEPT ![c] = @ /\ websocket'[c] # "none"]
    /\ api_call' = [op |-> "close", client |-> c, outcome |-> o, result |-> "returned",
                    was_connected |-> IsConnected(c)]
    /\ UNCHANGED ever_connected
    /\ UNCHANGED api_keeps

\* the peer closes the transport of object c
peer_closes(c) ==
    /\ websocket[c] = "open"
    /\ websocket' = [websocket EXCEPT ![c] = "closed"]
    /\ UNCHANGED <<flag_connected, apiVars>>
    /\ UNCHANGED api_keeps

NextClient ==
    \/ \E c \in ApiClients, o \in ConnectOutcomes : client_connect(c, o)
    \/ \E c \in ApiClients, o \in SendOutcomes : client_send(c, o)
    \/ \E c \in ApiClients : client_receive(c)
    \/ \E c \in ApiClients, o \in CloseOutcomes : client_close(c, o)
    \/ \E c \in ApiClients : peer_closes(c)

SpecClient == Init /\ [][NextClient]_vars

----------------------------------------------------------------------------
\* Claims about one client object (SpecClient)

\* C23: a connect() that fails, at websockets.connect or at the send of the session
\* configuration, raises, and the object is not connected afterwards.
C23_FailedConnectNotConnected ==
    (api_call.op = "connect" /\ api_call.outcome \in {"open_fails", "init_fails"}) =>
        /\ api_call.result = "raised"
        /\ ~IsConnected(api_call.client)

\* connect() failed on an object that was connected when it was called
C23_Witness ==
    /\ api_call.op = "connect"
    /\ api_call.result = "raised"
    /\ api_call.was_connected

\* C24: an object is connected only if its transport is open and the session
\* configuration was sent on that transport.
C24_ConnectedMeansInitialized ==
    \A c \in ApiClients : IsConnected(c) => session_sent[c]

\* C25: send on an object no connect() ever returned for ends with the
\* not-connected error; send on an object whose transport the peer closed, or that
\* close() was called on, ends with the connection-closed error; either way nothing
\* is transmitted and the object is not connected afterwards.
C25_SendErrors ==
    [][\A c \in ApiClients, o \in SendOutcomes :
          client_send(c, o) =>
              /\ ~ever_connected[c] =>
                    /\ api_call'.result = "not_connected"
                    /\ ~connected(websocket', flag_connected', c)
              /\ (ever_connected[c] /\ (websocket[c] = "closed" \/ closed_by_close[c])) =>
                    /\ api_call'.result = "connection_closed"
                    /\ ~connected(websocket', flag_connected', c)
      ]_vars

\* C26: after close() the object is not connected, whatever its state was and also if
\* websocket.close() raised; close() raises nothing; a close() that follows a close()
\* on the same object changes nothing.
C26_CloseIdempotent ==
    [][\A c \in ApiClients, o \in CloseOutcomes :
          client_close(c, o) =>
              /\ ~connected(websocket', flag_connected', c)
              /\ api_call'.result = "returned"
              /\ (api_call.op = "close" /\ api_call.client = c) =>
                    (websocket' = websocket /\ flag_connected' = flag_connected)
      ]_vars

\* close() ran on a connected object and websocket.close() raised
C26_Witness ==
    /\ api_call.op = "close"
    /\ api_call.outcome = "raises"
    /\ api_call.was_connected

----------------------------------------------------------------------------
\* OpenAIClientPool.close_all

\* the orders list(self.in_use_clients) may give
Orders(S) == {q \in [1..Cardinality(S) -> S] : Range(q) = S}

\* the idle clients alone
close_all_targets_idle(av, q) == av

\* line 111: self.available_clients + list(self.in_use_clients)
close_all_targets(av, q) == av \o q

\* lines 111-113 up to the next close() that suspends: close() on a client without
\* a websocket returns at client.py line 278
RECURSIVE ca_skip(_, _)
ca_skip(q, ws) ==
    IF q = <<>> THEN q
    ELSE IF ws[Head(q)] = "none" THEN ca_skip(Tail(q), ws) ELSE q

ca_keeps == <<cfgVars, poolVars, next_client, message_callback, taskVars, hcVars,
              histVars, ghostVars, apiVars, periodicVars, sessionVars, routerVars>>

\* close_all() is called
close_all_call ==
    /\ ca_pc = "idle"
    /\ \E q \in Orders(in_use_clients) :
          LET rest == ca_skip(close_all_targets(available_clients, q), websocket)
          IN  /\ ca_queue' = rest
              /\ ca_pc' = IF rest = <<>> THEN "done" ELSE "closing"
    /\ ca_targets' = Range(available_clients) \cup in_use_clients
    /\ ca_failed' = {}
    /\ UNCHANGED <<websocket, flag_connected>>
    /\ UNCHANGED ca_keeps

\* lines 113-115: the close() of the client being closed ends; o is the outcome of
\* its websocket.close()
close_all_closed(o) ==
    /\ ca_pc = "closing"
    /\ LET c == Head(ca_queue)
           ws == close_websocket(websocket, c, o)
           rest == ca_skip(Tail(ca_queue), ws)
       IN  /\ websocket' = ws
           /\ flag_connected' = close_flag(websocket, flag_connected, c, o)
           /\ ca_failed' = IF o = "raises" THEN ca_failed \cup {c} ELSE ca_failed
           /\ ca_queue' = rest
           /\ ca_pc' = IF rest = <<>> THEN "done" ELSE "closing"
    /\ UNCHANGED ca_targets
    /\ UNCHANGED ca_keeps

\* the pool has no operation in progress
quiescent == (\A t \in Tasks : pc[t] = "idle") /\ hc_pc = "idle"

\* The pool until the process shuts down: sessions acquire and release clients;
\* close_all() is called once, when no operation of the pool is in progress, and no
\* operation is started after it.  The peer may close a transport at any time.
NextShutdown ==
    \/ ca_pc = "idle" /\ \E t \in Tasks : get_client_call(t)
    \/ ca_pc = "idle" /\ \E t \in Tasks : lock_granted(t)
    \/ ca_pc = "idle" /\ \E t \in Tasks, o \in ConnectOutcomes : initialize_connected(t, o)
    \/ ca_pc = "idle" /\ \E t \in Tasks, o \in ConnectOutcomes :
                            get_client_reconnected(t, o)
    \/ ca_pc = "idle" /\ \E t \in Tasks, o \in ConnectOutcomes : get_client_created(t, o)
    \/ ca_pc = "idle" /\ \E t \in Tasks : release_client(t)
    \/ quiescent /\ close_all_call
    \/ \E o \in CloseOutcomes : close_all_closed(o)
    \/ \E c \in ClientIds : TransportCloses(c)

SpecShutdown == Init /\ [][NextShutdown]_vars

\* C22: close_all() calls close() on every client of available_clients and of
\* in_use_clients, also after the close of one of them failed; when it has returned,
\* none of these clients is connected, and close_all() has raised nothing.
C22_CloseAllClosesEvery ==
    ca_pc = "done" =>
        \A c \in ca_targets : websocket[c] = "none" /\ ~IsConnected(c)

\* close_all() has returned after closing an idle client and a client in use, the
\* close of one of them having failed before the last close
C22_Witness ==
    /\ ca_pc = "done"
    /\ available_clients # <<>>
    /\ in_use_clients # {}
    /\ ca_failed # {}
    /\ ca_failed # ca_targets

----------------------------------------------------------------------------
\* Claims about errors in the upstream direction (SpecRouter)

\* the processing of one upstream event meets an error: receive_message raises on
\* the frame, the event lacks a field, the tool raises, or a send of the result raises
pm_error_step ==
    \/ \E p \in Payloads : pm_receive(p) /\ receive_message(p) = "raises"
    \/ \E n \in BOOLEAN, c \in CallIds \cup {None}, tl \in ToolOutcomes,
          o1, o2 \in SendOutcomes :
          /\ pm_function_call(n, c, tl, o1, o2)
          /\ ~n \/ c = None \/ tl = "raises" \/ o1 = "raises" \/ o2 = "raises"

\* C27: an error met while one upstream event is processed is absorbed: the event is
\* dropped, process_openai_messages stays in its loop, and it leaves the loop only
\* when the session's client is not connected or its transport is closed, so that
\* later events on a connection that stays open are routed.
C27_EventErrorAbsorbed ==
    [][/\ pm_error_step => (pm_pc' \in {"receive", "check"} /\ ep_pc' = ep_pc)
       /\ (pm_pc # "done" /\ pm_pc' = "done") =>
             \/ pm_pc = "check" /\ ~session_is_connected
             \/ pm_pc = "receive" /\ session_websocket = "closed"
      ]_vars

\* the tool raised while a function call was processed, and a later event has been
\* received and is being routed
C27_Witness ==
    /\ pm_pc = "handling"
    /\ recv_result = "message"
    /\ last_event = "function_call"
    /\ Len(upstream_sent) = 2
    /\ upstream_sent[1].status = "error"

----------------------------------------------------------------------------
\* OpenAIMessageHandler._handle_error

\* what response['error']['message'] may be: text holding "already shorter than",
\* other text, absent (no 'error' or no 'message'), or a value that is not text (the
\* same for an 'error' that is not a dict)
ErrorMessages == {"benign", "other", "absent", "not_text"}

\* no message taken for the harmless one
is_benign_never(m) == FALSE

\* line 295: "already shorter than" in error_msg
is_benign(m) == m = "benign"

\* line 291
error_text(m) == IF m = "absent" THEN "Unknown error" ELSE m

\* _handle_error, lines 288-305, for an error event with message m; so is the
\* outcome of send_json.  A value that is not text raises at line 291 or 295, which
\* line 304 catches
handle_error(m, so) ==
    /\ last_event' = "error"
    /\ UNCHANGED audio_since_truncate
    /\ tool_calls' = <<>>
    /\ upstream_sent' = <<>>
    /\ IF m = "not_text"
       THEN /\ client_sent' = <<>>
            /\ UNCHANGED tracking
       ELSE IF is_benign(m)
            THEN /\ reset_audio_tracking
                 /\ client_sent' = <<>>
            ELSE /\ so = "ok" => client_state = "CONNECTED"
                 /\ client_sent' = <<[type |-> "error", message |-> error_text(m),
                                      delivered |-> so = "ok"]>>
                 /\ UNCHANGED tracking
    /\ UNCHANGED <<latest_timestamp, is_user_speaking, envVars, allPoolVars>>

\* the handler while the assistant speaks and upstream reports errors
NextError ==
    \/ \E d \in BOOLEAN, i \in Items \cup {None}, so \in SendJsonOutcomes :
          handle_audio_delta(d, i, so) /\ UNCHANGED routerVars
    \/ \E m \in ErrorMessages, so \in SendJsonOutcomes :
          handle_error(m, so) /\ UNCHANGED routerVars
    \/ handle_response_done /\ UNCHANGED routerVars
    \/ \E t \in Instants : Tick(t) /\ UNCHANGED routerVars
    \/ ClientDisconnects /\ UNCHANGED routerVars

SpecError == InitSession /\ [][NextError]_vars

\* C28: for an error event whose message is the harmless truncation one, the turn
\* tracking is reset and nothing is sent to the client; for every other message one
\* "error" event carrying the message is sent to the client and the turn tracking is
\* left as it was.
C28_ErrorEvent ==
    [][\A m \in {"benign", "other", "absent"}, so \in SendJsonOutcomes :
          handle_error(m, so) =>
              IF m = "benign"
              THEN /\ client_sent' = <<>>
                   /\ last_assistant_item' = None
                   /\ response_start_time' = NoTime
                   /\ ~is_assistant_speaking'
                   /\ audio_duration_ms' = 0
                   /\ audio_start_time' = NoTime
                   /\ audio_chunk_count' = NoCount
              ELSE /\ Len(client_sent') = 1
                   /\ client_sent'[1].type = "error"
                   /\ m = "other" => client_sent'[1].message = m
                   /\ tracking' = tracking
      ]_vars

\* an error was forwarded to the client in the middle of a turn
C28_Witness ==
    /\ last_event = "error"
    /\ Len(client_sent) = 1
    /\ client_sent[1].type = "error"
    /\ client_sent[1].delivered
    /\ is_assistant_speaking
    /\ audio_chunk_count # NoCount

----------------------------------------------------------------------------
\* Claims about the reconnects of get_client (Spec)

\* the reconnect get_client made for the client it popped ends, and the client is
\* not connected: connect() raised, or returned with the transport closed
failed_reconnect(t, o) ==
    /\ get_client_reconnected(t, o)
    /\ connect_raises(o) \/ ~connected(websocket', flag_connected', client[t])

\* C29: a popped idle client that is not connected gets one reconnect; if it fails
\* the client is in neither collection and is not returned, and get_client goes on
\* with the next idle client; get_client constructs a client only with
\* available_clients empty and fewer than max_connections clients in use.
C29_ReconnectOnceThenNext ==
    [][\A t \in Tasks :
          /\ \A o \in ConnectOutcomes :
                failed_reconnect(t, o) =>
                    /\ client[t] \notin Range(available_clients')
                    /\ client[t] \notin in_use_clients'
                    /\ held'[t] # client[t]
                    /\ pc'[t] = "get_reconnect" => client'[t] # client[t]
                    /\ available_clients # <<>> =>
                          LET nxt == available_clients[Len(available_clients)]
                          IN  held'[t] = nxt \/ client'[t] = nxt
          /\ (pc[t] # "get_new" /\ pc'[t] = "get_new") =>
                /\ available_clients' = <<>>
                /\ Cardinality(in_use_clients) < max_connections
      ]_vars

----------------------------------------------------------------------------
\* Claims about what initialize leaves (SpecInit)

\* the last connect() of an initialize() called directly by task t ends
initialize_ends(t, o) ==
    /\ initialize_connected(t, o)
    /\ loop_i[t] + 1 >= min_connections

----------------------------------------------------------------------------
\* Claims about turn tracking (SpecSession, SpecError)

AudioEvents == BOOLEAN \X (Items \cup {None}) \X SendJsonOutcomes

\* C31: a response-done event, from any session state, leaves the turn tracking
\* cleared (no assistant item, no response start, not speaking, duration 0, no chunk
\* counter) and leaves user-speaking and the latest timestamp as they were.
C31_ResponseDoneClears ==
    [][handle_response_done =>
          /\ last_assistant_item' = None
          /\ response_start_time' = NoTime
          /\ is_assistant_speaking' = FALSE
          /\ audio_duration_ms' = 0
          /\ audio_chunk_count' = NoCount
          /\ is_user_speaking' = is_user_speaking
          /\ latest_timestamp' = latest_timestamp]_vars

\* response-done was handled while the user, heard at a later instant than the
\* session's start, was still speaking
C31_Witness ==
    /\ last_event = "response_done"
    /\ is_user_speaking
    /\ latest_timestamp > StartTime
    /\ last_assistant_item = None
    /\ audio_chunk_count = NoCount

\* C32: an audio-delta event is forwarded to the client only while the client's
\* transport is open and the event carries a payload; otherwise nothing is sent to
\* the client and the session state and the turn tracking are unchanged.
C32_AudioOnlyToOpenClient ==
    [][\A e \in AudioEvents :
          handle_audio_delta(e[1], e[2], e[3]) =>
             /\ client_sent' # <<>> => (client_state = "CONNECTED" /\ e[1])
             /\ (client_state # "CONNECTED" \/ ~e[1]) =>
                    /\ client_sent' = <<>>
                    /\ UNCHANGED <<stateVars, trackVars>>]_vars

\* an audio-delta arrived in the middle of a turn after the client had gone
C32_Witness ==
    /\ last_event = "audio_delta"
    /\ client_state = "DISCONNECTED"
    /\ client_sent = <<>>
    /\ is_assistant_speaking
    /\ audio_chunk_count = 2

\* C33: the turn start and the chunk counter are reset exactly at the first audio
\* chunk after the session's start or after a reset of the turn tracking; at every
\* chunk the tracked duration is the time of that chunk minus the turn start, so
\* within a turn the duration never decreases.
C33_TurnStartAtFirstChunk ==
    [][/\ \A e \in AudioEvents :
             (/\ handle_audio_delta(e[1], e[2], e[3])
              /\ client_state = "CONNECTED"
              /\ e[1])
             => /\ IF audio_chunk_count = NoCount
                   THEN /\ audio_start_time' = now
                        /\ audio_chunk_count' = 1
                   ELSE /\ audio_start_time' = audio_start_time
                        /\ audio_chunk_count' = audio_chunk_count + 1
                        /\ audio_duration_ms' >= audio_duration_ms
                /\ audio_duration_ms' = now - audio_start_time'
       /\ (audio_start_time' # audio_start_time /\ audio_start_time' # NoTime)
             => /\ last_event' = "audio_delta"
                /\ audio_chunk_count = NoCount
                /\ audio_chunk_count' = 1]_vars

\* the second chunk of a turn that began at 1400, later than the session
C33_Witness ==
    /\ last_event = "audio_delta"
    /\ client_sent # <<>>
    /\ audio_start_time = 1400
    /\ audio_chunk_count = 2
    /\ audio_duration_ms = 600

\* C34: within one assistant turn the recorded assistant item id is set by the
\* first audio-delta that carries an item id and is not changed by later
\* audio-deltas of the same turn.
C34_ItemIdSetOnce ==
    [][\A e \in AudioEvents :
          (handle_audio_delta(e[1], e[2], e[3]) /\ last_assistant_item # None)
          => last_assistant_item' = last_assistant_item]_vars

\* C35: on speech-started the interruption runs if and only if the assistant is
\* speaking at that moment, and in every case user-speaking is true afterwards; on
\* speech-stopped user-speaking becomes false and the turn tracking is unchanged.
C35_SpeechStartedStopped ==
    [][/\ \A o \in SendOutcomes :
             handle_speech_started(o) =>
                /\ is_user_speaking'
                /\ upstream_sent' # <<>> => is_assistant_speaking
                /\ ~is_assistant_speaking =>
                       (upstream_sent' = <<>> /\ UNCHANGED tracking)
                /\ (/\ is_assistant_speaking
                    /\ last_assistant_item # None
                    /\ audio_duration_ms >= 400)
                   => /\ Len(upstream_sent') = 1
                      /\ upstream_sent'[1].type = "conversation.item.truncate"
       /\ handle_speech_stopped =>
             (~is_user_speaking' /\ UNCHANGED tracking)]_vars

\* the user was heard over a speaking assistant: the interruption ran and the user
\* is recorded as speaking at that instant
C35_Witness ==
    /\ last_event = "speech_started"
    /\ is_user_speaking
    /\ latest_timestamp = now
    /\ Len(upstream_sent) = 1
    /\ upstream_sent[1].delivered
    /\ ~is_assistant_speaking

----------------------------------------------------------------------------
\* Claims about function-call events (SpecRouter)

\* C36: a function-call-arguments-done event without its name or without its call id
\* executes no tool and hands no message to the upstream send, neither a function
\* result nor a response.create.
C36_MissingIdentifierIgnored ==
    [][\A n \in BOOLEAN, c \in CallIds \cup {None}, tl \in ToolOutcomes,
          o1, o2 \in SendOutcomes :
          (pm_function_call(n, c, tl, o1, o2) /\ (~n \/ c = None))
          => /\ tool_calls' = <<>>
             /\ upstream_sent' = <<>>]_vars

\* a function-call event was handled and neither ran a tool nor sent anything
C36_Witness ==
    /\ last_event = "function_call"
    /\ tool_calls = <<>>
    /\ upstream_sent = <<>>

----------------------------------------------------------------------------
\* Claims about session initialization (SpecClient)

\* C37: over any sequence of connect, send, receive, transport failure and reconnect
\* on one object, the session-initialization message is sent only by the first
\* connect that returns: a connect that returns on an object an earlier connect
\* returned for sends no initialization message.
C37_InitializationSentOnce ==
    [][\A c \in ApiClients :
          (client_connect(c, "ok") /\ ever_connected[c]) => ~session_sent'[c]]_vars

----------------------------------------------------------------------------
\* Claims about the consistency of the turn tracking (SpecSession)

\* C38: in every reachable session state a recorded assistant item implies that
\* the assistant is speaking, the assistant is speaking exactly when a response
\* start is recorded, and a speaking assistant has a turn start and a chunk counter.
C38_TrackingConsistent ==
    /\ last_assistant_item # None => is_assistant_speaking
    /\ is_assistant_speaking <=> response_start_time # NoTime
    /\ is_assistant_speaking =>
           (audio_start_time # NoTime /\ audio_chunk_count # NoCount)

\* the assistant speaks its second chunk of an item, in a response that started
\* when the user was last heard
C38_Witness ==
    /\ is_assistant_speaking
    /\ last_assistant_item = 2
    /\ response_start_time = 1150
    /\ audio_start_time = 1400
    /\ audio_chunk_count = 2

----------------------------------------------------------------------------
\* Claims about the cause of a truncate command (SpecSession)

----------------------------------------------------------------------------
\* The periodic health check (pool_instance.py).  schedule_health_check is a plain
\* function: it runs in one step.  A task of periodic_health_check sleeps (line 24),
\* then runs health_check() of the pool (line 26), which suspends at every connect.
\* cancel() makes the loop raise CancelledError in the task at its next iteration,
\* before a sleep of a whole interval ends: no health check starts while a
\* cancellation is pending.

\* line 42 left out
cancels_existing_never(task) == FALSE

\* line 42: there is a task and it is not done
cancels_existing(task) == task # None /\ pt_pc[task] # "done"

pt_active(t) == pt_pc[t] \in {"sleeping", "checking"}

pt_pending == \E u \in PeriodicTasks : pt_active(u) /\ pt_cancel[u]

pt_pool_keeps == <<cfgVars, poolVars, clientVars, taskVars, hcVars, histVars, ghostVars,
                   shutdownVars, apiVars, sessionVars, routerVars>>

\* schedule_health_check(), lines 37-50; t is the task create_task makes
schedule_health_check(t) ==
    /\ pt_pc[t] = "none"
    /\ \A u \in PeriodicTasks : u < t => pt_pc[u] # "none"
    /\ pt_cancel' = IF cancels_existing(health_check_task)
                    THEN [pt_cancel EXCEPT ![health_check_task] = TRUE]
                    ELSE pt_cancel
    /\ pt_pc' = [pt_pc EXCEPT ![t] = "sleeping"]
    /\ health_check_task' = t
    /\ UNCHANGED <<pt_failed, pt_checks, pt_pool_keeps>>

\* health_check() is left by an exception: its local variables are gone and line 137
\* was not reached
hc_abandoned ==
    /\ hc_pc' = "idle"
    /\ hc_index' = 0
    /\ healthy_clients' = <<>>
    /\ hc_client' = None
    /\ needed_clients' = 0

\* where task t is after a step of its health check: back at line 24 when
\* health_check() has returned
pt_after_check(t) ==
    [pt_pc EXCEPT ![t] = IF hc_pc' = "idle" THEN "sleeping" ELSE "checking"]

\* lines 24-26: the sleep of task t ends and health_check() runs to its first await
\* or to its end
pt_check_starts(t) ==
    /\ pt_pc[t] = "sleeping"
    /\ ~pt_pending
    /\ health_check_call
    /\ pt_pc' = pt_after_check(t)
    /\ pt_failed' = [pt_failed EXCEPT ![t] = FALSE]
    /\ pt_checks' = [pt_checks EXCEPT ![t] = (@ + 1) % 2]
    /\ UNCHANGED <<health_check_task, pt_cancel>>

\* line 26: the connect the health check of task t awaits ends with outcome o
pt_check_reconnected(t, o) ==
    /\ pt_pc[t] = "checking"
    /\ ~pt_cancel[t]
    /\ health_check_reconnected(o)
    /\ pt_pc' = pt_after_check(t)
    /\ UNCHANGED <<health_check_task, pt_cancel, pt_failed, pt_checks>>

pt_check_created(t, o) ==
    /\ pt_pc[t] = "checking"
    /\ ~pt_cancel[t]
    /\ health_check_created(o)
    /\ pt_pc' = pt_after_check(t)
    /\ UNCHANGED <<health_check_task, pt_cancel, pt_failed, pt_checks>>

\* lines 26-28: health_check() raises before its first await, at the test of the
\* first idle client (pool.py line 124, outside every try); the exception is logged
\* and the loop goes on at line 24
pt_check_raises_at_call(t) ==
    /\ pt_pc[t] = "sleeping"
    /\ ~pt_pending
    /\ hc_pc = "idle"
    /\ Len(available_clients) > 0
    /\ pt_failed' = [pt_failed EXCEPT ![t] = TRUE]
    /\ pt_checks' = [pt_checks EXCEPT ![t] = (@ + 1) % 2]
    /\ UNCHANGED <<health_check_task, pt_pc, pt_cancel, pt_pool_keeps>>

\* lines 26-28: health_check() raises after the reconnect it awaited ended with
\* outcome o, at the test of the next idle client (pool.py line 124)
pt_check_raises_after(t, o) ==
    /\ pt_pc[t] = "checking"
    /\ ~pt_cancel[t]
    /\ hc_pc = "reconnect"
    /\ hc_index < Len(available_clients)
    /\ ConnectPossible(hc_client, o)
    /\ websocket' = connect_websocket(hc_client, o)
    /\ flag_connected' = connect_flag(hc_client, o)
    /\ hc_abandoned
    /\ pt_pc' = [pt_pc EXCEPT ![t] = "sleeping"]
    /\ pt_failed' = [pt_failed EXCEPT ![t] = TRUE]
    /\ UNCHANGED <<health_check_task, pt_cancel, pt_checks>>
    /\ UNCHANGED <<cfgVars, poolVars, next_client, message_callback, taskVars, histVars,
                   ghostVars, shutdownVars, apiVars, sessionVars, routerVars>>

\* lines 29-31: the CancelledError is raised in task t where it waits, at line 24 or
\* inside health_check(), and the task ends
pt_cancelled(t) ==
    /\ pt_active(t)
    /\ pt_cancel[t]
    /\ pt_pc' = [pt_pc EXCEPT ![t] = "done"]
    /\ pt_cancel' = [pt_cancel EXCEPT ![t] = FALSE]
    /\ IF pt_pc[t] = "checking" THEN hc_abandoned ELSE UNCHANGED hcVars
    /\ UNCHANGED <<health_check_task, pt_failed, pt_checks>>
    /\ UNCHANGED <<cfgVars, poolVars, clientVars, taskVars, histVars, ghostVars,
                   shutdownVars, apiVars, sessionVars, routerVars>>

NextPeriodic ==
    \/ \E t \in PeriodicTasks : schedule_health_check(t)
    \/ \E t \in PeriodicTasks : pt_check_starts(t)
    \/ \E t \in PeriodicTasks, o \in ConnectOutcomes : pt_check_reconnected(t, o)
    \/ \E t \in PeriodicTasks, o \in ConnectOutcomes : pt_check_created(t, o)
    \/ \E t \in PeriodicTasks : pt_check_raises_at_call(t)
    \/ \E t \in PeriodicTasks, o \in ConnectOutcomes : pt_check_raises_after(t, o)
    \/ \E t \in PeriodicTasks : pt_cancelled(t)
    \/ \E c \in ClientIds : TransportCloses(c)

SpecPeriodic == Init /\ [][NextPeriodic]_vars

\* asyncio.sleep(health_check_interval) of line 24 ends: a sleeping task that is not
\* cancelled calls health_check() again
FairPeriodic ==
    /\ SpecPeriodic
    /\ \A t \in PeriodicTasks :
          WF_vars(pt_check_starts(t) \/ pt_check_raises_at_call(t))

\* C40: the periodic task keeps running after a health check raises: the failed
\* health_check() leaves the task at its sleep and, unless the task is cancelled, is
\* followed by another health_check(); and after any sequence of calls of
\* schedule_health_check at most one task exists that is neither done nor cancelled.
C40_PeriodicCheckKeepsRunning ==
    /\ [](Cardinality({t \in PeriodicTasks : pt_active(t) /\ ~pt_cancel[t]}) <= 1)
    /\ [][\A t \in PeriodicTasks :
             (\/ pt_check_raises_at_call(t)
              \/ \E o \in ConnectOutcomes : pt_check_raises_after(t, o))
             => pt_pc'[t] = "sleeping"]_vars
    /\ \A t \in PeriodicTasks, b \in {0, 1} :
          (pt_failed[t] /\ pt_checks[t] = b)
             ~> (\/ pt_checks[t] # b
                 \/ ~pt_active(t)
                 \/ pt_cancel[t]
                 \/ next_client > MaxClients)

\* the second task, scheduled after the first was cancelled, sleeps after a health
\* check of its own that raised
C40_Witness ==
    /\ pt_pc[1] = "done"
    /\ pt_pc[2] = "sleeping"
    /\ pt_failed[2]
    /\ pt_checks[2] = 1

====
